---- MODULE Spec2Model ----
(***************************************************************************)
(* Model of the video summarizer pipeline of src/app.py: one form          *)
(* submission drives acquisition, transcription, language detection,       *)
(* summary generation and result formatting, with the user interface       *)
(* messages, the temporary files and the collaborator calls as state.      *)
(*                                                                         *)
(* Python values:                                                          *)
(*   - a text is a sequence of one-character strings;                      *)
(*   - an Optional[str] is a record [isNone, text];                        *)
(*   - a decoded JSON value is a record [t, v] with t its Python type.     *)
(***************************************************************************)
EXTENDS Integers, Sequences, FiniteSets, TLC

\* Longest raw summary text enumerated exhaustively over Alphabet.
MaxLen == 3

\* ----------------------------------------------------------------------
\* Python values
\* ----------------------------------------------------------------------

\* Python None as an Optional[str].
None == [isNone |-> TRUE, text |-> <<>>]

\* A Python str as an Optional[str].
Str(s) == [isNone |-> FALSE, text |-> s]

\* Python truthiness of an Optional[str]: None and "" are falsy.
Truthy(x) == ~x.isNone /\ x.text # <<>>

\* A text from a TLA+ tuple of characters (readability only).
NL == "\n"
QUOTE == "\""

\* ----------------------------------------------------------------------
\* json.loads, on texts over Chars.  The number grammar is the integer
\* form -?(0|[1-9][0-9]*): Chars has no "." and no text of RawTexts has a
\* digit followed by an exponent.
\* ----------------------------------------------------------------------

WS == {" ", NL}
Digits == {"0", "1"}
DigitVal(c) == IF c = "1" THEN 1 ELSE 0

\* Result of a failed scan (json.JSONDecodeError).
NoVal == [t |-> "error", v |-> <<>>]
Fail == [ok |-> FALSE, val |-> NoVal, pos |-> 0]
Ok(val, pos) == [ok |-> TRUE, val |-> val, pos |-> pos]

PyNone == [t |-> "NoneType", v |-> <<>>]
PyBool(b) == [t |-> "bool", v |-> <<b>>]
PyInt(n) == [t |-> "int", v |-> <<n>>]
PyStr(s) == [t |-> "str", v |-> s]
PyList(items) == [t |-> "list", v |-> items]
PyDict(pairs) == [t |-> "dict", v |-> pairs]

\* Index of the first character at or after i that is not whitespace.
RECURSIVE SkipWs(_, _)
SkipWs(s, i) ==
    IF i <= Len(s) /\ s[i] \in WS THEN SkipWs(s, i + 1) ELSE i

\* TRUE iff the word w occurs in s at position i.
StartsWith(s, i, w) ==
    /\ i + Len(w) - 1 <= Len(s)
    /\ \A j \in 1..Len(w) : s[i + j - 1] = w[j]

\* Index of the closing quote of the string whose content starts at i, or 0.
RECURSIVE ScanQuote(_, _)
ScanQuote(s, i) ==
    IF i > Len(s) THEN 0
    ELSE IF s[i] = QUOTE THEN i
    ELSE IF s[i] = NL THEN 0
    ELSE ScanQuote(s, i + 1)

\* A string literal whose opening quote is at i.
ParseString(s, i) ==
    LET close == ScanQuote(s, i + 1) IN
    IF close = 0 THEN Fail
    ELSE Ok(PyStr(SubSeq(s, i + 1, close - 1)), close + 1)

\* Value and end of the run of digits starting at i, with acc the value so far.
RECURSIVE ScanDigits(_, _, _)
ScanDigits(s, i, acc) ==
    IF i <= Len(s) /\ s[i] \in Digits
    THEN ScanDigits(s, i + 1, 10 * acc + DigitVal(s[i]))
    ELSE <<acc, i>>

\* An integer literal at i: -?(0|[1-9][0-9]*).
ParseNumber(s, i) ==
    LET neg == i <= Len(s) /\ s[i] = "-"
        j == IF neg THEN i + 1 ELSE i
    IN  IF j > Len(s) \/ s[j] \notin Digits THEN Fail
        ELSE IF s[j] = "0" THEN Ok(PyInt(0), j + 1)
        ELSE LET r == ScanDigits(s, j, 0)
             IN  Ok(PyInt(IF neg THEN 0 - r[1] ELSE r[1]), r[2])

\* dict[key] = val: a repeated key keeps its place and takes the new value.
DictSet(pairs, key, val) ==
    IF \E n \in 1..Len(pairs) : pairs[n][1] = key
    THEN [n \in 1..Len(pairs) |->
             IF pairs[n][1] = key THEN <<key, val>> ELSE pairs[n]]
    ELSE Append(pairs, <<key, val>>)

RECURSIVE ParseValue(_, _)
RECURSIVE ParseArrayItems(_, _, _)
RECURSIVE ParseObjectItems(_, _, _)

\* The items of an array after its "[" or after a ",": value, then "," or "]".
ParseArrayItems(s, i, items) ==
    LET r == ParseValue(s, SkipWs(s, i)) IN
    IF ~r.ok THEN Fail
    ELSE LET j == SkipWs(s, r.pos)
             acc == Append(items, r.val)
         IN  IF j > Len(s) THEN Fail
             ELSE IF s[j] = "]" THEN Ok(PyList(acc), j + 1)
             ELSE IF s[j] = "," THEN ParseArrayItems(s, j + 1, acc)
             ELSE Fail

\* An array whose "[" is at i.
ParseArray(s, i) ==
    LET j == SkipWs(s, i + 1) IN
    IF j <= Len(s) /\ s[j] = "]" THEN Ok(PyList(<<>>), j + 1)
    ELSE ParseArrayItems(s, j, <<>>)

\* The members of an object after its "{" or after a ",":
\* string key, ":", value, then "," or "}".
ParseObjectItems(s, i, pairs) ==
    LET k == SkipWs(s, i) IN
    IF k > Len(s) \/ s[k] # QUOTE THEN Fail
    ELSE LET key == ParseString(s, k) IN
         IF ~key.ok THEN Fail
         ELSE LET c == SkipWs(s, key.pos) IN
              IF c > Len(s) \/ s[c] # ":" THEN Fail
              ELSE LET r == ParseValue(s, SkipWs(s, c + 1)) IN
                   IF ~r.ok THEN Fail
                   ELSE LET j == SkipWs(s, r.pos)
                            acc == DictSet(pairs, key.val.v, r.val)
                        IN  IF j > Len(s) THEN Fail
                            ELSE IF s[j] = "}" THEN Ok(PyDict(acc), j + 1)
                            ELSE IF s[j] = "," THEN ParseObjectItems(s, j + 1, acc)
                            ELSE Fail

\* An object whose "{" is at i.
ParseObject(s, i) ==
    LET j == SkipWs(s, i + 1) IN
    IF j <= Len(s) /\ s[j] = "}" THEN Ok(PyDict(<<>>), j + 1)
    ELSE ParseObjectItems(s, j, <<>>)

\* scan_once: the JSON value starting at i.
ParseValue(s, i) ==
    IF i > Len(s) THEN Fail
    ELSE IF s[i] = QUOTE THEN ParseString(s, i)
    ELSE IF s[i] = "{" THEN ParseObject(s, i)
    ELSE IF s[i] = "[" THEN ParseArray(s, i)
    ELSE IF StartsWith(s, i, <<"n", "u", "l", "l">>) THEN Ok(PyNone, i + 4)
    ELSE IF StartsWith(s, i, <<"t", "r", "u", "e">>) THEN Ok(PyBool(TRUE), i + 4)
    ELSE IF StartsWith(s, i, <<"f", "a", "l", "s", "e">>) THEN Ok(PyBool(FALSE), i + 5)
    ELSE ParseNumber(s, i)

\* json.loads(s): leading whitespace, one value, trailing whitespace, end of
\* text; anything else is a JSONDecodeError (ok = FALSE).
JsonLoads(s) ==
    LET r == ParseValue(s, SkipWs(s, 1)) IN
    IF r.ok /\ SkipWs(s, r.pos) = Len(s) + 1 THEN r ELSE Fail

\* ----------------------------------------------------------------------
\* json.dumps(value, indent=2) and str(value)
\* ----------------------------------------------------------------------

\* Indentation step of the downloaded artifact.
Indent == 2

DigitChar == <<"0", "1", "2", "3", "4", "5", "6", "7", "8", "9">>

\* Decimal digits of a natural number.
RECURSIVE NatStr(_)
NatStr(n) ==
    IF n < 10 THEN <<DigitChar[n + 1]>>
    ELSE NatStr(n \div 10) \o <<DigitChar[(n % 10) + 1]>>

\* str(n) of a Python int.
IntStr(n) == IF n < 0 THEN <<"-">> \o NatStr(0 - n) ELSE NatStr(n)

\* n space characters.
Spaces(n) == [j \in 1..n |-> " "]

\* The texts of parts, each two separated by sep.
RECURSIVE Join(_, _)
Join(parts, sep) ==
    IF parts = <<>> THEN <<>>
    ELSE IF Len(parts) = 1 THEN parts[1]
    ELSE parts[1] \o sep \o Join(Tail(parts), sep)

\* The JSON encoder with indent=Indent, at nesting level lvl.
RECURSIVE Encode(_, _)
Encode(val, lvl) ==
    LET inner == <<NL>> \o Spaces(Indent * (lvl + 1))
        outer == <<NL>> \o Spaces(Indent * lvl)
    IN
    CASE val.t = "NoneType" -> <<"n", "u", "l", "l">>
      [] val.t = "bool" -> IF val.v[1] THEN <<"t", "r", "u", "e">>
                                        ELSE <<"f", "a", "l", "s", "e">>
      [] val.t = "int" -> IntStr(val.v[1])
      [] val.t = "str" -> <<QUOTE>> \o val.v \o <<QUOTE>>
      [] val.t = "list" ->
            IF val.v = <<>> THEN <<"[", "]">>
            ELSE <<"[">> \o inner
                 \o Join([n \in 1..Len(val.v) |-> Encode(val.v[n], lvl + 1)],
                         <<",">> \o inner)
                 \o outer \o <<"]">>
      [] val.t = "dict" ->
            IF val.v = <<>> THEN <<"{", "}">>
            ELSE <<"{">> \o inner
                 \o Join([n \in 1..Len(val.v) |->
                             <<QUOTE>> \o val.v[n][1] \o <<QUOTE, ":", " ">>
                             \o Encode(val.v[n][2], lvl + 1)],
                         <<",">> \o inner)
                 \o outer \o <<"}">>

\* json.dumps(val, indent=2).
JsonDumps(val) == Encode(val, 0)

\* repr(val) of a decoded value.
RECURSIVE PyRepr(_)
PyRepr(val) ==
    CASE val.t = "NoneType" -> <<"N", "o", "n", "e">>
      [] val.t = "bool" -> IF val.v[1] THEN <<"T", "r", "u", "e">>
                                        ELSE <<"F", "a", "l", "s", "e">>
      [] val.t = "int" -> IntStr(val.v[1])
      [] val.t = "str" -> <<"'">> \o val.v \o <<"'">>
      [] val.t = "list" ->
            <<"[">> \o Join([n \in 1..Len(val.v) |-> PyRepr(val.v[n])],
                            <<",", " ">>) \o <<"]">>
      [] val.t = "dict" ->
            <<"{">> \o Join([n \in 1..Len(val.v) |->
                                <<"'">> \o val.v[n][1] \o <<"'", ":", " ">>
                                \o PyRepr(val.v[n][2])],
                            <<",", " ">>) \o <<"}">>

\* str(val): a str is itself, any other value its repr.
PyToStr(val) == IF val.t = "str" THEN val.v ELSE PyRepr(val)

\* ----------------------------------------------------------------------
\* Inputs and collaborators
\* ----------------------------------------------------------------------

\* Characters of the raw summary texts enumerated exhaustively.
Alphabet == {"{", "}", "[", "]", QUOTE, "1", "k", " "}

\* All texts over Alphabet of length n.
RECURSIVE TextsOfLen(_)
TextsOfLen(n) ==
    IF n = 0 THEN {<<>>}
    ELSE {Append(t, c) : t \in TextsOfLen(n - 1), c \in Alphabet}

\* Longer raw summary texts: objects with members, nested values, literals,
\* numbers with sign or leading zero, near-JSON and prose.
Samples ==
    { <<"{", QUOTE, "k", QUOTE, ":", "1", "}">>,
      <<"{", NL, " ", QUOTE, "k", QUOTE, ":", " ", "[", "1", ",", QUOTE, "k", QUOTE, "]", NL, "}">>,
      <<"{", QUOTE, "k", QUOTE, ":", "1", ",", QUOTE, "k", QUOTE, ":", "n", "u", "l", "l", "}">>,
      <<"{", QUOTE, "k", QUOTE, ":", "{", QUOTE, "a", QUOTE, ":", "t", "r", "u", "e", "}", ",", QUOTE, "a", QUOTE, ":", "[", "]", "}">>,
      <<"{", QUOTE, "k", QUOTE, ":", "1", ",", "}">>,
      <<"{", QUOTE, "k", QUOTE, " ", "1", "}">>,
      <<"{", "k", ":", "1", "}">>,
      <<"[", "1", ",", "1", "]">>,
      <<"[", "1", ",", "]">>,
      <<"n", "u", "l", "l">>,
      <<"t", "r", "u", "e">>,
      <<"f", "a", "l", "s", "e">>,
      <<"n", "u", "l">>,
      <<"-", "1", "1">>,
      <<"-", "0">>,
      <<"0", "1">>,
      <<"-">>,
      <<"a", " ", "k", ":", " ", "1">> }

\* The texts response.content[0].text may be.
RawTexts == UNION {TextsOfLen(n) : n \in 0..MaxLen} \cup Samples

\* The texts model.transcribe may return: empty, symbols only, words.
Transcripts == {<<>>, <<"?">>, <<"k">>}

\* Codes the language detector may return.
LangCodes == {"en", "it"}

\* What langdetect's detect(text) may do: it raises when the text has no
\* letter to extract features from, and may raise or return a code otherwise.
DetectOutcomes(text) ==
    IF \A n \in 1..Len(text) : text[n] # "k" THEN {"raise"}
    ELSE {"raise"} \cup LangCodes

\* Contents a media file may have.
Complete == {"silent", "av"}

\* What model.transcribe(video_path) may do on a file with the given content
\* (None stands for raising): without a decodable audio stream the audio
\* load fails and it raises.
WhisperOutcomes(content) ==
    IF content = "av" THEN {None} \cup {Str(t) : t \in Transcripts} ELSE {None}

\* Handles of the temporary files a run may create.
Handles == {"tmp_upload", "tmp_ytdlp", "tmp_direct"}
NoPath == "None"

\* The five stages, in pipeline order.
Stages == <<"acquisition", "transcription", "detection", "generation", "formatting">>

\* ----------------------------------------------------------------------
\* State
\* ----------------------------------------------------------------------

VARIABLES
    pc,                 \* position of the script run
    api_key,            \* TRUE iff ANTHROPIC_API_KEY is configured
    video_url,          \* the URL field of the form: "" or "url"
    uploaded_file,      \* the upload field: "None" or the content of the upload
    files,              \* state of each temporary file
    video_path,         \* NoPath or the handle passed downstream
    attempts,           \* downloader invocations of the run, with their results
    transcript,         \* Optional[str]
    language,           \* detected language code, "" before detection
    language_name,      \* displayed language name
    detector,           \* what detect(text) did: "", "raise" or the code
    structured_content, \* Optional[str], the raw summary text
    animation_script,   \* the formatted summary, t = "unset" before formatting
    shown,              \* what the result container displays
    download,           \* Optional[str], data of the download button
    ui,                 \* messages displayed, in order
    started,            \* stages started, in order
    calls               \* collaborator calls made, in order

vars == <<pc, api_key, video_url, uploaded_file, files, video_path, attempts,
          transcript, language, language_name, detector, structured_content,
          animation_script, shown, download, ui, started, calls>>

Unset == [t |-> "unset", v |-> <<>>]
Nothing == [kind |-> "none", text |-> <<>>]

Msg(lvl, id) == [lvl |-> lvl, msg |-> id]

\* Positions at which the script run has ended: at its last line, by
\* st.stop(), or by an exception nothing catches.
Terminal == {"done", "stopped", "crashed"}

Init ==
    /\ pc = "form"
    /\ api_key \in BOOLEAN
    /\ video_url = ""
    /\ uploaded_file = "None"
    /\ files = [h \in Handles |-> "absent"]
    /\ video_path = NoPath
    /\ attempts = <<>>
    /\ transcript = None
    /\ language = ""
    /\ language_name = ""
    /\ detector = ""
    /\ structured_content = None
    /\ animation_script = Unset
    /\ shown = Nothing
    /\ download = None
    /\ ui = <<>>
    /\ started = <<>>
    /\ calls = <<>>

\* ----------------------------------------------------------------------
\* Pure functions of the pipeline
\* ----------------------------------------------------------------------

\* detect_language without its try/except: the detector's failure is not
\* replaced by the default code.
detect_language_unhandled(text, outcome) == outcome

\* detect_language(text), with outcome what detect(text) does.
detect_language(text, outcome) ==
    IF outcome = "raise" THEN "en" ELSE outcome

\* The lookup of the displayed language name; unknown codes pass through.
LanguageName(code) ==
    CASE code = "en" -> "English"
      [] code = "ar" -> "Arabic"
      [] code = "fr" -> "French"
      [] code = "es" -> "Spanish"
      [] code = "de" -> "German"
      [] OTHER -> code

\* format_for_animation with a fallback that drops the text.
format_for_animation_dropping(text) ==
    LET r == JsonLoads(text) IN
    IF r.ok THEN r.val ELSE PyNone

\* format_for_animation(structured_content): the decoded value, or the text
\* itself when json.loads raises JSONDecodeError.
format_for_animation(text) ==
    LET r == JsonLoads(text) IN
    IF r.ok THEN r.val ELSE PyStr(text)

\* script_str of the download button.
script_str(script) ==
    IF script.t = "dict" THEN PyStr(JsonDumps(script)) ELSE script

\* ----------------------------------------------------------------------
\* The script run
\* ----------------------------------------------------------------------

\* The form is submitted with the given fields; the pipeline runs only when
\* a URL or a file is given.
Submit(url, up) ==
    /\ pc = "form"
    /\ video_url' = url
    /\ uploaded_file' = up
    /\ pc' = IF url # "" \/ up # "None" THEN "acquire" ELSE "done"
    /\ UNCHANGED <<api_key, files, video_path, attempts, transcript, language,
                   language_name, detector, structured_content,
                   animation_script, shown, download, ui, started, calls>>

\* The uploaded bytes are copied to a new temporary file.
SaveUpload ==
    /\ pc = "acquire"
    /\ uploaded_file # "None"
    /\ files' = [files EXCEPT !["tmp_upload"] = uploaded_file]
    /\ video_path' = "tmp_upload"
    /\ started' = Append(started, "acquisition")
    /\ pc' = "check_path"
    /\ UNCHANGED <<api_key, video_url, uploaded_file, attempts, transcript,
                   language, language_name, detector, structured_content,
                   animation_script, shown, download, ui, calls>>

\* download_video_ytdlp(video_url): a temporary file is created empty, then
\* the extractor either fills it or raises.
download_video_ytdlp(outcome) ==
    /\ pc = "acquire"
    /\ uploaded_file = "None"
    /\ video_url # ""
    /\ calls' = Append(calls, "ytdlp")
    /\ IF outcome = "raise"
       THEN /\ files' = [files EXCEPT !["tmp_ytdlp"] = "empty"]
            /\ video_path' = NoPath
            /\ ui' = ui \o <<Msg("info", "downloading"), Msg("error", "ytdlp_error")>>
       ELSE /\ files' = [files EXCEPT !["tmp_ytdlp"] = outcome]
            /\ video_path' = "tmp_ytdlp"
            /\ ui' = Append(ui, Msg("info", "downloading"))
    /\ attempts' = Append(attempts, [m |-> "ytdlp", r |-> video_path'])
    /\ started' = Append(started, "acquisition")
    /\ pc' = "fallback"
    /\ UNCHANGED <<api_key, video_url, uploaded_file, transcript, language,
                   language_name, detector, structured_content,
                   animation_script, shown, download>>

\* The fallback without its guard: the direct download is always tried.
FallbackCheck_unguarded ==
    /\ pc = "fallback"
    /\ ui' = Append(ui, Msg("warning", "primary_failed"))
    /\ pc' = "direct"
    /\ UNCHANGED <<api_key, video_url, uploaded_file, files, video_path,
                   attempts, transcript, language, language_name, detector,
                   structured_content, animation_script, shown, download,
                   started, calls>>

\* if not video_path: the direct download is tried only after the extractor
\* returned None.
FallbackCheck ==
    /\ pc = "fallback"
    /\ IF video_path = NoPath
       THEN /\ ui' = Append(ui, Msg("warning", "primary_failed"))
            /\ pc' = "direct"
       ELSE /\ pc' = "check_path"
            /\ UNCHANGED ui
    /\ UNCHANGED <<api_key, video_url, uploaded_file, files, video_path,
                   attempts, transcript, language, language_name, detector,
                   structured_content, animation_script, shown, download,
                   started, calls>>

\* download_video_direct(video_url): a streamed GET; on status 200 the body
\* is written chunk by chunk to a new temporary file.
download_video_direct(outcome) ==
    /\ pc = "direct"
    /\ calls' = Append(calls, "http_get")
    /\ CASE outcome = "conn_error" ->
              /\ ui' = ui \o <<Msg("info", "direct_attempt"), Msg("error", "direct_error")>>
              /\ video_path' = NoPath
              /\ UNCHANGED files
         [] outcome = "non200" ->
              /\ ui' = ui \o <<Msg("info", "direct_attempt"), Msg("error", "http_status")>>
              /\ video_path' = NoPath
              /\ UNCHANGED files
         [] outcome = "interrupted" ->
              /\ ui' = ui \o <<Msg("info", "direct_attempt"), Msg("error", "direct_error")>>
              /\ video_path' = NoPath
              /\ files' = [files EXCEPT !["tmp_direct"] = "partial"]
         [] OTHER ->
              /\ ui' = Append(ui, Msg("info", "direct_attempt"))
              /\ video_path' = "tmp_direct"
              /\ files' = [files EXCEPT !["tmp_direct"] = outcome]
    /\ attempts' = Append(attempts, [m |-> "direct", r |-> video_path'])
    /\ pc' = "check_path"
    /\ UNCHANGED <<api_key, video_url, uploaded_file, transcript, language,
                   language_name, detector, structured_content,
                   animation_script, shown, download, started>>

\* if video_path: transcription starts, else the run ends with an error.
VideoPathCheck ==
    /\ pc = "check_path"
    /\ IF video_path # NoPath
       THEN /\ pc' = "transcribe"
            /\ UNCHANGED ui
       ELSE /\ pc' = "done"
            /\ ui' = Append(ui, Msg("error", "unable"))
    /\ UNCHANGED <<api_key, video_url, uploaded_file, files, video_path,
                   attempts, transcript, language, language_name, detector,
                   structured_content, animation_script, shown, download,
                   started, calls>>

\* transcribe_video(video_path), the definition in force: the model is
\* loaded and invoked on the media file directly; any exception is
\* reported and gives None.
transcribe_video(loaded, outcome) ==
    /\ pc = "transcribe"
    /\ IF ~loaded
       THEN /\ transcript' = None
            /\ ui' = ui \o <<Msg("info", "transcribing"), Msg("error", "transcribe_error")>>
            /\ UNCHANGED calls
       ELSE /\ calls' = Append(calls, "whisper")
            /\ transcript' = outcome
            /\ ui' = IF outcome.isNone
                     THEN ui \o <<Msg("info", "transcribing"), Msg("error", "transcribe_error")>>
                     ELSE Append(ui, Msg("info", "transcribing"))
    /\ started' = Append(started, "transcription")
    /\ pc' = "check_transcript"
    /\ UNCHANGED <<api_key, video_url, uploaded_file, files, video_path,
                   attempts, language, language_name, detector,
                   structured_content, animation_script, shown, download>>

\* Step 2: transcript = transcribe_video(video_path).
TranscribeStep ==
    /\ pc = "transcribe"
    /\ \E loaded \in BOOLEAN :
          \E outcome \in WhisperOutcomes(files[video_path]) :
             transcribe_video(loaded, outcome)

\* The transcript check left out: detection follows any transcription.
TranscriptCheck_unguarded ==
    /\ pc = "check_transcript"
    /\ pc' = "detect"
    /\ ui' = Append(ui, Msg("write", "transcript"))
    /\ UNCHANGED <<api_key, video_url, uploaded_file, files, video_path,
                   attempts, transcript, language, language_name, detector,
                   structured_content, animation_script, shown, download,
                   started, calls>>

\* if transcript: the transcript is shown and detection starts, else the
\* run ends.
TranscriptCheck ==
    /\ pc = "check_transcript"
    /\ IF Truthy(transcript)
       THEN /\ pc' = "detect"
            /\ ui' = Append(ui, Msg("write", "transcript"))
       ELSE /\ pc' = "done"
            /\ UNCHANGED ui
    /\ UNCHANGED <<api_key, video_url, uploaded_file, files, video_path,
                   attempts, transcript, language, language_name, detector,
                   structured_content, animation_script, shown, download,
                   started, calls>>

\* Step 3: language = detect_language(transcript), then the name lookup.
DetectLanguage(outcome) ==
    /\ pc = "detect"
    /\ calls' = Append(calls, "detect")
    /\ detector' = outcome
    /\ language' = detect_language(transcript.text, outcome)
    /\ language_name' = LanguageName(language')
    /\ pc' = "generate"
    /\ started' = Append(started, "detection")
    /\ UNCHANGED <<api_key, video_url, uploaded_file, files, video_path,
                   attempts, transcript, structured_content, animation_script,
                   shown, download, ui>>

DetectLanguageStep ==
    /\ pc = "detect"
    /\ \E outcome \in DetectOutcomes(transcript.text) : DetectLanguage(outcome)

\* generate_structured_summary stopped by get_anthropic_client: without an
\* API key an error is shown and st.stop() ends the script run.
get_anthropic_client_stop ==
    /\ pc = "generate"
    /\ ~api_key
    /\ ui' = ui \o <<Msg("info", "generating"), Msg("error", "no_api_key")>>
    /\ started' = Append(started, "generation")
    /\ pc' = "stopped"
    /\ UNCHANGED <<api_key, video_url, uploaded_file, files, video_path,
                   attempts, transcript, language, language_name, detector,
                   structured_content, animation_script, shown, download, calls>>

\* generate_structured_summary(transcript, language): one request to the
\* generation service; its first text block, or None after an exception.
generate_structured_summary(outcome) ==
    /\ pc = "generate"
    /\ api_key
    /\ calls' = Append(calls, "llm")
    /\ structured_content' = outcome
    /\ ui' = IF outcome.isNone
             THEN ui \o <<Msg("info", "generating"), Msg("error", "gen_error")>>
             ELSE Append(ui, Msg("info", "generating"))
    /\ started' = Append(started, "generation")
    /\ pc' = "check_content"
    /\ UNCHANGED <<api_key, video_url, uploaded_file, files, video_path,
                   attempts, transcript, language, language_name, detector,
                   animation_script, shown, download>>

\* Step 4: structured_content = generate_structured_summary(transcript, language).
GenerateStep ==
    /\ pc = "generate"
    /\ \E outcome \in {None} \cup {Str(t) : t \in RawTexts} :
          generate_structured_summary(outcome)

\* if structured_content: formatting starts, else the run ends.
ContentCheck ==
    /\ pc = "check_content"
    /\ pc' = IF Truthy(structured_content) THEN "format" ELSE "done"
    /\ UNCHANGED <<api_key, video_url, uploaded_file, files, video_path,
                   attempts, transcript, language, language_name, detector,
                   structured_content, animation_script, shown, download, ui,
                   started, calls>>

\* Step 5: animation_script = format_for_animation(structured_content).
FormatStep ==
    /\ pc = "format"
    /\ animation_script' = format_for_animation(structured_content.text)
    /\ started' = Append(started, "formatting")
    /\ pc' = "display"
    /\ UNCHANGED <<api_key, video_url, uploaded_file, files, video_path,
                   attempts, transcript, language, language_name, detector,
                   structured_content, shown, download, ui, calls>>

\* The result container: success message, the script as JSON (a dict) or as
\* a text area (anything else, cast to str), then the download button, which
\* raises for data that is neither str nor bytes.
DisplayResults ==
    /\ pc = "display"
    /\ ui' = Append(ui, Msg("success", "complete"))
    /\ shown' = IF animation_script.t = "dict"
                THEN [kind |-> "json", text |-> JsonDumps(animation_script)]
                ELSE [kind |-> "text", text |-> PyToStr(animation_script)]
    /\ IF script_str(animation_script).t = "str"
       THEN /\ download' = Str(script_str(animation_script).v)
            /\ pc' = "cleanup"
       ELSE /\ pc' = "crashed"
            /\ UNCHANGED download
    /\ UNCHANGED <<api_key, video_url, uploaded_file, files, video_path,
                   attempts, transcript, language, language_name, detector,
                   structured_content, animation_script, started, calls>>

\* os.unlink(video_path) in try/except: a failure is ignored.
Cleanup(removed) ==
    /\ pc = "cleanup"
    /\ calls' = Append(calls, "unlink")
    /\ files' = IF removed THEN [files EXCEPT ![video_path] = "deleted"] ELSE files
    /\ pc' = "done"
    /\ UNCHANGED <<api_key, video_url, uploaded_file, video_path, attempts,
                   transcript, language, language_name, detector,
                   structured_content, animation_script, shown, download, ui,
                   started>>

Next ==
    \/ \E url \in {"", "url"}, up \in {"None", "empty"} \cup Complete : Submit(url, up)
    \/ SaveUpload
    \/ \E outcome \in {"raise"} \cup Complete : download_video_ytdlp(outcome)
    \/ FallbackCheck
    \/ \E outcome \in {"conn_error", "non200", "interrupted", "empty"} \cup Complete :
          download_video_direct(outcome)
    \/ VideoPathCheck
    \/ TranscribeStep
    \/ TranscriptCheck
    \/ DetectLanguageStep
    \/ get_anthropic_client_stop
    \/ GenerateStep
    \/ ContentCheck
    \/ FormatStep
    \/ DisplayResults
    \/ \E removed \in BOOLEAN : Cleanup(removed)

Spec == Init /\ [][Next]_vars

\* ----------------------------------------------------------------------
\* Properties
\* ----------------------------------------------------------------------

IsPrefix(a, b) == Len(a) <= Len(b) /\ \A n \in 1..Len(a) : a[n] = b[n]
StageStarted(st) == \E n \in 1..Len(started) : started[n] = st
Called(c) == \E n \in 1..Len(calls) : calls[n] = c
CallCount(c) == Cardinality({n \in 1..Len(calls) : calls[n] = c})
ErrorShown == \E n \in 1..Len(ui) : ui[n].lvl = "error"
Shown(id) == \E n \in 1..Len(ui) : ui[n].msg = id
Submitted == video_url # "" \/ uploaded_file # "None"
Formatted == animation_script.t # "unset"

\* C1: the stages start in pipeline order, and a stage starts only when every
\* earlier stage of the run gave a non-failure output: no transcription
\* without a media handle, no detection or generation without a transcript,
\* no formatting, display or download without a raw summary text.
C1_StagesInOrderHaltAtFirstFailure ==
    /\ IsPrefix(started, Stages)
    /\ StageStarted("transcription") => video_path # NoPath
    /\ Called("whisper") => StageStarted("transcription")
    /\ StageStarted("detection") => ~transcript.isNone
    /\ Called("detect") => StageStarted("detection")
    /\ StageStarted("generation") => ~transcript.isNone /\ language # ""
    /\ Called("llm") => StageStarted("generation")
    /\ StageStarted("formatting") => ~structured_content.isNone
    /\ (Formatted \/ shown.kind # "none" \/ ~download.isNone)
          => StageStarted("formatting")
    /\ (pc \in Terminal /\ structured_content.isNone)
          => ~Formatted /\ shown.kind = "none" /\ download.isNone

\* A run in which generation returned None has ended without formatting.
C1_Witness ==
    /\ pc = "done"
    /\ Called("llm")
    /\ structured_content.isNone
    /\ started = SubSeq(Stages, 1, 4)

\* C2: in every run in which acquisition produced a media handle, deletion
\* of that file has been attempted by the time the run has ended.
C2_CleanupAttemptedOnEveryOutcome ==
    (pc \in Terminal /\ video_path # NoPath) => Called("unlink")

\* C3: a submitted run that has ended without a formatted summary has
\* displayed at least one error message.
C3_HaltShowsError ==
    (pc \in Terminal /\ Submitted /\ ~Formatted) => ErrorShown

\* C4: the formatted summary is a mapping or the raw text unchanged, and the
\* download data is the pretty-printed mapping or the raw text.
C4_MappingOrRawText ==
    Formatted =>
       /\ \/ animation_script.t = "dict"
          \/ /\ animation_script.t = "str"
             /\ animation_script.v = structured_content.text
       /\ pc \in Terminal =>
             /\ ~download.isNone
             /\ download.text = IF animation_script.t = "dict"
                                THEN JsonDumps(animation_script)
                                ELSE structured_content.text

C6_DetectionNeverHalts ==
    /\ detector # "" =>
          /\ language \in LangCodes
          /\ detector = "raise" => language = "en"
          /\ (\A n \in 1..Len(transcript.text) : transcript.text[n] # "k")
                => language = "en"
          /\ pc # "generate" => StageStarted("generation")
    /\ (pc \in Terminal /\ Truthy(transcript)) =>
          /\ detector # ""
          /\ StageStarted("generation")

\* On a symbol-only transcript the detector raised, the code is the default
\* and the generation service was called.
C6_Witness ==
    /\ transcript = Str(<<"?">>)
    /\ detector = "raise"
    /\ language = "en"
    /\ Called("llm")

\* C7: for a media file without an audio track the recognition model is not
\* invoked, transcription ends with the no-audio error, and the generation
\* service is not called.
C7_NoAudioHaltsBeforeModel ==
    (video_path # NoPath /\ files[video_path] = "silent") =>
       /\ ~Called("whisper")
       /\ ~Called("llm")
       /\ pc \in Terminal => Shown("no_audio")

\* C8: a media handle names a complete, non-empty file, and every downloader
\* that returned None reported an error.
C8_HandleNamesCompleteFile ==
    /\ (video_path # NoPath /\ ~Called("unlink")) => files[video_path] \in Complete
    /\ (\E n \in 1..Len(attempts) : attempts[n].r = NoPath) => ErrorShown

\* C9: with an upload no downloader is invoked; otherwise the extractor is
\* invoked once, the direct fetch once and only after the extractor returned
\* None, and nothing more after both failed.
C9_AcquisitionOrder ==
    /\ uploaded_file # "None" =>
          attempts = <<>> /\ ~Called("ytdlp") /\ ~Called("http_get")
    /\ Len(attempts) <= 2
    /\ CallCount("ytdlp") <= 1 /\ CallCount("http_get") <= 1
    /\ CallCount("ytdlp") + CallCount("http_get") = Len(attempts)
    /\ Len(attempts) >= 1 => attempts[1].m = "ytdlp"
    /\ Len(attempts) = 2 => attempts[2].m = "direct" /\ attempts[1].r = NoPath
    /\ (uploaded_file = "None" /\ video_url # ""
          /\ pc \notin {"form", "acquire", "fallback", "direct"}) =>
          /\ Len(attempts) >= 1
          /\ attempts[1].r = NoPath => Len(attempts) = 2
          /\ video_path = attempts[Len(attempts)].r

\* Both downloaders failed, each invoked once, and the run has ended.
C9_Witness ==
    /\ pc = "done"
    /\ calls = <<"ytdlp", "http_get">>
    /\ Len(attempts) = 2
    /\ video_path = NoPath

\* C10: when the run has ended, the only temporary file created and not
\* deleted is at most the one whose handle was passed downstream.
C10_FailedAttemptLeavesNoFile ==
    pc \in Terminal =>
       \A h \in Handles : files[h] \notin {"absent", "deleted"} => h = video_path

====
